---- MODULE Spec2Model ----
(***************************************************************************)
(* Model of scripts/gen_biquad_coeffs.py: the biquad coefficient pipeline  *)
(* (validation, BiquadCoeffGenerator, CoeffFormatter, output stage of      *)
(* main).                                                                  *)
(*                                                                         *)
(* Python floats are modelled as exact rationals <<num, den>> (den > 0,    *)
(* lowest terms) together with the special values a double computation of  *)
(* the script can produce on the inputs considered: NaN, and the two       *)
(* arithmetic exceptions the designer can raise.  Rounding of the 53-bit   *)
(* mantissa is not modelled; the finite exponent range (underflow to 0.0   *)
(* and OverflowError of the ** operator) is.                               *)
(***************************************************************************)
EXTENDS Integers, Sequences, FiniteSets, TLC

\* ------------------------------------------------------------ float values

\* float('nan')
NaN == <<0, 0>>
\* a pending ZeroDivisionError raised by a float division
ZeroDivisionError == <<1, 0>>
\* a pending OverflowError raised by the float ** operator
OverflowError == <<2, 0>>
\* Python's None (an unset optional value)
None == <<>>

IsNaN(x) == x = NaN
IsExc(x) == x = ZeroDivisionError \/ x = OverflowError
IsNum(x) == x[2] > 0

Abs(n) == IF n < 0 THEN -n ELSE n

RECURSIVE Gcd(_, _)
Gcd(a, b) == IF b = 0 THEN a ELSE Gcd(b, a % b)

\* the rational n/d (d # 0) in lowest terms with a positive denominator
Rat(n, d) ==
    LET g == Gcd(Abs(n), Abs(d))
        s == IF d < 0 THEN -1 ELSE 1
    IN  <<(s * n) \div g, (s * d) \div g>>

R(n) == <<n, 1>>

\* A binary float operation: a raised exception in an operand stays raised
\* (the statement never completes), NaN propagates, otherwise the exact result.
Lift(x, y, r) ==
    IF IsExc(x) THEN x
    ELSE IF IsExc(y) THEN y
    ELSE IF IsNaN(x) \/ IsNaN(y) THEN NaN
    ELSE r

FAdd(x, y) == Lift(x, y, Rat(x[1] * y[2] + y[1] * x[2], x[2] * y[2]))
FSub(x, y) == Lift(x, y, Rat(x[1] * y[2] - y[1] * x[2], x[2] * y[2]))
FMul(x, y) == Lift(x, y, Rat(x[1] * y[1], x[2] * y[2]))
FNeg(x) == IF IsNum(x) THEN <<-x[1], x[2]>> ELSE x

\* Python float division: a zero divisor raises ZeroDivisionError, whatever the
\* dividend is (nan / 0.0 raises too).
FDiv(x, y) ==
    IF IsExc(x) THEN x
    ELSE IF IsExc(y) THEN y
    ELSE IF IsNum(y) /\ y[1] = 0 THEN ZeroDivisionError
    ELSE IF IsNaN(x) \/ IsNaN(y) THEN NaN
    ELSE Rat(x[1] * y[2], x[2] * y[1])

\* IEEE comparisons: every ordered comparison with NaN is false.
FLt(x, y) == IsNum(x) /\ IsNum(y) /\ x[1] * y[2] < y[1] * x[2]
FLe(x, y) == IsNum(x) /\ IsNum(y) /\ x[1] * y[2] <= y[1] * x[2]
FGt(x, y) == FLt(y, x)
FGe(x, y) == FLe(y, x)

RECURSIVE Pow(_, _)
Pow(b, e) == IF e = 0 THEN 1 ELSE b * Pow(b, e - 1)

\* Largest and smallest decimal exponents e for which 10.0 ** e is a finite
\* non-zero double: above, ** raises OverflowError; below, it returns 0.0.
MaxExp10 == 308
MinExp10 == -323

\* 10.0 ** e for an integral e (the gains considered are multiples of 40 dB).
Pow10(e) ==
    IF ~IsNum(e) THEN e
    ELSE LET k == e[1] \div e[2]
         IN  IF k > MaxExp10 THEN OverflowError
             ELSE IF k < MinExp10 THEN R(0)
             ELSE IF k >= 0 THEN R(Pow(10, k))
             ELSE Rat(1, Pow(10, -k))

\* math.sin and math.cos of omega, omega given in units of math.pi.  The angles
\* that occur are the multiples of pi/6 in (0, pi); sqrt(3)/2 is rounded to the
\* rational 13/15, as the double result is a rounding of the real one.
Sin(omega) ==
    IF ~IsNum(omega) THEN omega
    ELSE CASE omega = Rat(1, 6) -> Rat(1, 2)
           [] omega = Rat(1, 3) -> Rat(13, 15)
           [] omega = Rat(1, 2) -> R(1)
           [] omega = Rat(2, 3) -> Rat(13, 15)
           [] omega = Rat(5, 6) -> Rat(1, 2)

Cos(omega) ==
    IF ~IsNum(omega) THEN omega
    ELSE CASE omega = Rat(1, 6) -> Rat(13, 15)
           [] omega = Rat(1, 3) -> Rat(1, 2)
           [] omega = Rat(1, 2) -> R(0)
           [] omega = Rat(2, 3) -> Rat(-1, 2)
           [] omega = Rat(5, 6) -> Rat(-13, 15)

\* ------------------------------------------------- BiquadCoeffGenerator

\* BiquadCoeffGenerator(sample_rate): the object holds the sample rate only.
BiquadCoeffGenerator(sample_rate) == [sample_rate |-> sample_rate]

\* omega = 2.0 * math.pi * freq / self.sample_rate, in units of math.pi
Omega(self, freq) == FDiv(FMul(R(2), freq), self.sample_rate)

\* alpha = sin_omega / (2.0 * q)
Alpha(self, freq, q) == FDiv(Sin(Omega(self, freq)), FMul(R(2), q))

\* A = 10.0 ** (gain_db / 40.0)
PeakA(gain_db) == Pow10(FDiv(gain_db, R(40)))

\* lowpass_raw with b1 = (1 - cos)/2, the middle numerator term not doubled.
lowpass_raw_b1_halved(self, freq, q) ==
    LET c == Cos(Omega(self, freq))
        alpha == Alpha(self, freq, q)
    IN  << FDiv(FSub(R(1), c), R(2)),
           FDiv(FSub(R(1), c), R(2)),
           FDiv(FSub(R(1), c), R(2)),
           FAdd(R(1), alpha),
           FMul(R(-2), c),
           FSub(R(1), alpha) >>

\* The unnormalized tuples <<b0, b1, b2, a0, a1, a2>> of the five designers.
lowpass_raw(self, freq, q) ==
    LET c == Cos(Omega(self, freq))
        alpha == Alpha(self, freq, q)
    IN  << FDiv(FSub(R(1), c), R(2)),
           FSub(R(1), c),
           FDiv(FSub(R(1), c), R(2)),
           FAdd(R(1), alpha),
           FMul(R(-2), c),
           FSub(R(1), alpha) >>

\* highpass_raw with b1 = +(1 + cos), the sign of the middle term lost.
highpass_raw_b1_positive(self, freq, q) ==
    LET c == Cos(Omega(self, freq))
        alpha == Alpha(self, freq, q)
    IN  << FDiv(FAdd(R(1), c), R(2)),
           FAdd(R(1), c),
           FDiv(FAdd(R(1), c), R(2)),
           FAdd(R(1), alpha),
           FMul(R(-2), c),
           FSub(R(1), alpha) >>

highpass_raw(self, freq, q) ==
    LET c == Cos(Omega(self, freq))
        alpha == Alpha(self, freq, q)
    IN  << FDiv(FAdd(R(1), c), R(2)),
           FNeg(FAdd(R(1), c)),
           FDiv(FAdd(R(1), c), R(2)),
           FAdd(R(1), alpha),
           FMul(R(-2), c),
           FSub(R(1), alpha) >>

bandpass_raw(self, freq, q) ==
    LET s == Sin(Omega(self, freq))
        c == Cos(Omega(self, freq))
        alpha == Alpha(self, freq, q)
    IN  << FDiv(s, R(2)),
           R(0),
           FDiv(FNeg(s), R(2)),
           FAdd(R(1), alpha),
           FMul(R(-2), c),
           FSub(R(1), alpha) >>

bandstop_raw(self, freq, q) ==
    LET c == Cos(Omega(self, freq))
        alpha == Alpha(self, freq, q)
    IN  << R(1),
           FMul(R(-2), c),
           R(1),
           FAdd(R(1), alpha),
           FMul(R(-2), c),
           FSub(R(1), alpha) >>

\* peaking_raw with A and 1/A exchanged between numerator and denominator.
peaking_raw_swapped(self, freq, q, gain_db) ==
    LET c == Cos(Omega(self, freq))
        A == PeakA(gain_db)
        alpha == Alpha(self, freq, q)
    IN  << FAdd(R(1), FDiv(alpha, A)),
           FMul(R(-2), c),
           FSub(R(1), FDiv(alpha, A)),
           FAdd(R(1), FMul(alpha, A)),
           FMul(R(-2), c),
           FSub(R(1), FMul(alpha, A)) >>

peaking_raw(self, freq, q, gain_db) ==
    LET c == Cos(Omega(self, freq))
        A == PeakA(gain_db)
        alpha == Alpha(self, freq, q)
    IN  << FAdd(R(1), FMul(alpha, A)),
           FMul(R(-2), c),
           FSub(R(1), FMul(alpha, A)),
           FAdd(R(1), FDiv(alpha, A)),
           FMul(R(-2), c),
           FSub(R(1), FDiv(alpha, A)) >>

\* The exception a designer call ended with, given the tuple it computed: every
\* returned value is a quotient by a0, so an exception raised on the way to a0 (or
\* by the division itself) shows in them; None when the call returned.
Raised(t) ==
    IF \E i \in 1..Len(t) : IsExc(t[i])
    THEN t[CHOOSE i \in 1..Len(t) : IsExc(t[i]) /\ \A j \in 1..(i - 1) : ~IsExc(t[j])]
    ELSE None

\* _normalize: (b0/a0, b1/a0, b2/a0, a1/a0, a2/a0)
normalize(t) ==
    << FDiv(t[1], t[4]), FDiv(t[2], t[4]), FDiv(t[3], t[4]),
       FDiv(t[5], t[4]), FDiv(t[6], t[4]) >>

lowpass(self, freq, q) == normalize(lowpass_raw(self, freq, q))
highpass(self, freq, q) == normalize(highpass_raw(self, freq, q))
bandpass(self, freq, q) == normalize(bandpass_raw(self, freq, q))
bandstop(self, freq, q) == normalize(bandstop_raw(self, freq, q))
peaking(self, freq, q, gain_db) == normalize(peaking_raw(self, freq, q, gain_db))

\* ------------------------------------------------------- CoeffFormatter

\* PyInt rounding toward negative infinity, as math.floor would.
PyInt_floor(x) == x[1] \div x[2]

\* int(x) of a float: truncation toward zero.
PyInt(x) == IF x[1] >= 0 THEN x[1] \div x[2] ELSE -((-x[1]) \div x[2])

\* a & b on Python integers, b >= 0: a negative a is an infinite two's-complement
\* bit string (a % 2 is its lowest bit, a \div 2 the arithmetic shift).
RECURSIVE BitAnd(_, _)
BitAnd(a, b) ==
    IF b = 0 THEN 0
    ELSE (a % 2) * (b % 2) + 2 * BitAnd(a \div 2, b \div 2)

\* to_fixed clamping the scaled value to the signed width-bit range before the
\* mask, as a saturating quantizer would.
to_fixed_saturating(val, scale, width) ==
    LET raw == PyInt(FMul(val, R(scale)))
        hi == Pow(2, width - 1) - 1
        lo == -Pow(2, width - 1)
    IN  BitAnd(IF raw > hi THEN hi ELSE IF raw < lo THEN lo ELSE raw,
               Pow(2, width) - 1)

\* to_fixed of to_verilog: int(val * scale) & ((1 << width) - 1)
to_fixed(val, scale, width) ==
    BitAnd(PyInt(FMul(val, R(scale))), Pow(2, width) - 1)

\* The digits, most significant first, of n >= 0 in base 16.
RECURSIVE HexDigits(_)
HexDigits(n) == IF n < 16 THEN <<n>> ELSE Append(HexDigits(n \div 16), n % 16)

\* format(n, "0{minlen}X"): the hex digits, zero-padded on the left to minlen.
RECURSIVE ZeroPad(_, _)
ZeroPad(ds, minlen) == IF Len(ds) >= minlen THEN ds ELSE ZeroPad(<<0>> \o ds, minlen)

FormatHex(n, minlen) == ZeroPad(HexDigits(n), minlen)

\* r * 10^k \div d and r * 10^k % d for 0 <= r < d, digit by digit.
RECURSIVE FracDigits(_, _, _)
FracDigits(r, d, k) ==
    IF k = 0 THEN <<0, r>>
    ELSE LET t == FracDigits(r, d, k - 1)
         IN  <<t[1] * 10 + (t[2] * 10) \div d, (t[2] * 10) % d>>

\* format(v, "{minwidth}.{prec}f"): sign, integer part and prec fractional
\* digits (as one integer), rounded half to even; "nan" for NaN.
FormatF(v, minwidth, prec) ==
    IF ~IsNum(v) THEN [nan |-> TRUE, neg |-> FALSE, int |-> 0, frac |-> 0,
                       prec |-> prec, minwidth |-> minwidth]
    ELSE LET a == Abs(v[1])
             t == FracDigits(a % v[2], v[2], prec)
             up == 2 * t[2] > v[2] \/ (2 * t[2] = v[2] /\ t[1] % 2 = 1)
             fr == IF up THEN t[1] + 1 ELSE t[1]
             carry == fr = Pow(10, prec)
         IN  [nan |-> FALSE, neg |-> v[1] < 0,
              int |-> IF carry THEN a \div v[2] + 1 ELSE a \div v[2],
              frac |-> IF carry THEN 0 ELSE fr,
              prec |-> prec, minwidth |-> minwidth]

\* to_verilog: the Q-format header and the five parameter lines, each the
\* width, the hex pattern and the value at 6 decimals.  int() of a NaN raises
\* ValueError.
to_verilog(coeffs, width, frac_bits) ==
    IF \E i \in 1..5 : ~IsNum(coeffs[i])
    THEN [exc |-> "ValueError"]
    ELSE [fmt |-> "verilog",
          header |-> <<frac_bits, width - frac_bits - 1>>,
          params |-> [i \in 1..5 |->
                        [width |-> width,
                         hex |-> FormatHex(to_fixed(coeffs[i], Pow(2, frac_bits), width),
                                           width \div 4),
                         comment |-> FormatF(coeffs[i], 8, 6)]]]

to_c(coeffs) ==
    [fmt |-> "c",
     b_coeffs |-> [i \in 1..3 |-> FormatF(coeffs[i], 12, 9)],
     a_coeffs |-> [i \in 1..2 |-> FormatF(coeffs[i + 3], 12, 9)]]

to_matlab(coeffs) ==
    [fmt |-> "matlab",
     b |-> [i \in 1..3 |-> FormatF(coeffs[i], 12, 9)],
     a |-> <<FormatF(R(1), 3, 1), FormatF(coeffs[4], 12, 9), FormatF(coeffs[5], 12, 9)>>]

\* to_json: json.dumps of the mapping; floats are written at full precision, a
\* None value as null; the metadata is attached when it is a non-empty mapping.
to_json(coeffs, metadata) ==
    LET coefficients == [b |-> <<coeffs[1], coeffs[2], coeffs[3]>>,
                         a |-> <<R(1), coeffs[4], coeffs[5]>>]
    IN  IF metadata # None /\ DOMAIN metadata # {}
        THEN [fmt |-> "json", coefficients |-> coefficients, metadata |-> metadata]
        ELSE [fmt |-> "json", coefficients |-> coefficients]

\* ------------------------------------------------------------ invocations

\* Most runs of main that follow each other on the same arguments and file.
MaxRuns == 2

\* --filter-type choices
FilterTypes == {"lowpass", "highpass", "bandpass", "bandstop", "peaking"}
\* --output choices
OutputFormats == {"verilog", "c", "matlab", "json"}
\* --freq: any string float() accepts, "nan" included
FreqValues == {NaN, R(-4000), R(0), R(4000), R(12000), R(20000), R(24000)}
\* --sample-rate
SampleRates == {R(48000), R(24000)}
\* --q
QValues == {NaN, R(-1), R(0), Rat(1, 2), R(1)}
\* --gain, in dB
GainValues == {R(-13000), R(-40), R(0), R(40), R(13000)}
\* --width and --frac-bits
WidthFracBits == {<<8, 4>>, <<4, 3>>}
\* --file: absent, the empty string, a path
FileValues == {None, <<"">>, <<"coeffs.v">>}

Args ==
    [filter_type : FilterTypes, freq : FreqValues, sample_rate : SampleRates,
     q : QValues, gain : GainValues, output : OutputFormats, file : FileValues,
     wf : WidthFracBits]

\* What the target path holds before the first run: whatever earlier runs, of
\* this program or another, left there.
PreviousContent == <<[src |-> "previous", data |-> None, complete |-> TRUE]>>

VARIABLES
    args,       \* the parsed command line
    pc,         \* the position of main
    gen,        \* main's local gen (None: not yet bound)
    coeffs,     \* main's local coeffs
    metadata,   \* main's local metadata
    output,     \* main's local output
    fh,         \* the file handle f: "none", "open", "closed"
    fs,         \* the content of the path args.file, a sequence of chunks
    stdout,     \* what was printed to standard output, in order
    stderr,     \* what was printed to the error stream, in order
    exitCode,   \* None while the process runs, else <<code>>
    calls,      \* history: the calls main has made so far in this run
    prev,       \* history: the outcome of the previous run, None in the first
    runs        \* the number of the current run

vars == <<args, pc, gen, coeffs, metadata, output, fh, fs, stdout, stderr,
          exitCode, calls, prev, runs>>

Init ==
    /\ args \in Args
    /\ pc = "validate"
    /\ gen = None
    /\ coeffs = None
    /\ metadata = None
    /\ output = None
    /\ fh = "none"
    /\ fs = PreviousContent
    /\ stdout = <<>>
    /\ stderr = <<>>
    /\ exitCode = None
    /\ calls = <<>>
    /\ prev = None
    /\ runs = 1

\* The process ends with an uncaught exception or sys.exit(1): a message on the
\* error stream and exit status 1.
Die(msg) ==
    /\ pc' = "exit"
    /\ exitCode' = <<1>>
    /\ stderr' = Append(stderr, msg)

\* freq <= 0 or freq >= sample_rate / 2
BadFreq(a) == FLe(a.freq, R(0)) \/ FGe(a.freq, FDiv(a.sample_rate, R(2)))
\* q <= 0
BadQ(a) == FLe(a.q, R(0))

\* main, lines 198-205: the two range checks.
Validate ==
    /\ pc = "validate"
    /\ IF BadFreq(args)
       THEN Die("Error: Frequency must be between 0 and Nyquist")
       ELSE IF BadQ(args)
       THEN Die("Error: Q factor must be positive")
       ELSE /\ pc' = "construct"
            /\ UNCHANGED <<exitCode, stderr>>
    /\ UNCHANGED <<args, gen, coeffs, metadata, output, fh, fs, stdout, calls,
                   prev, runs>>

\* main, line 208: gen = BiquadCoeffGenerator(args.sample_rate)
Construct ==
    /\ pc = "construct"
    /\ gen' = BiquadCoeffGenerator(args.sample_rate)
    /\ calls' = Append(calls, "BiquadCoeffGenerator")
    /\ pc' = "design"
    /\ UNCHANGED <<args, coeffs, metadata, output, fh, fs, stdout, stderr,
                   exitCode, prev, runs>>

\* main, lines 210-219: the dispatch on the filter type.
Designed(g, a) ==
    CASE a.filter_type = "lowpass" -> lowpass(g, a.freq, a.q)
      [] a.filter_type = "highpass" -> highpass(g, a.freq, a.q)
      [] a.filter_type = "bandpass" -> bandpass(g, a.freq, a.q)
      [] a.filter_type = "bandstop" -> bandstop(g, a.freq, a.q)
      [] a.filter_type = "peaking" -> peaking(g, a.freq, a.q, a.gain)

Design ==
    /\ pc = "design"
    /\ calls' = Append(calls, args.filter_type)
    /\ LET r == Designed(gen, args)
       IN  IF Raised(r) # None
           THEN /\ Die(IF Raised(r) = OverflowError
                       THEN "OverflowError" ELSE "ZeroDivisionError")
                /\ UNCHANGED coeffs
           ELSE /\ coeffs' = r
                /\ pc' = "metadata"
                /\ UNCHANGED <<exitCode, stderr>>
    /\ UNCHANGED <<args, gen, metadata, output, fh, fs, stdout, prev, runs>>

\* Metadata with the gain recorded for every filter type.
Metadata_gain_always(a) ==
    [filter_type |-> a.filter_type,
     frequency |-> a.freq,
     sample_rate |-> a.sample_rate,
     q_factor |-> a.q,
     gain_db |-> a.gain]

\* main, lines 222-228: the metadata mapping.
Metadata(a) ==
    [filter_type |-> a.filter_type,
     frequency |-> a.freq,
     sample_rate |-> a.sample_rate,
     q_factor |-> a.q,
     gain_db |-> IF a.filter_type = "peaking" THEN a.gain ELSE None]

MakeMetadata ==
    /\ pc = "metadata"
    /\ metadata' = Metadata(args)
    /\ pc' = "format"
    /\ UNCHANGED <<args, gen, coeffs, output, fh, fs, stdout, stderr, exitCode,
                   calls, prev, runs>>

\* main, lines 231-239: the dispatch on the output format.
Formatted(a, c, m) ==
    CASE a.output = "verilog" -> to_verilog(c, a.wf[1], a.wf[2])
      [] a.output = "c" -> to_c(c)
      [] a.output = "matlab" -> to_matlab(c)
      [] a.output = "json" -> to_json(c, m)

Format ==
    /\ pc = "format"
    /\ calls' = Append(calls, "to_" \o args.output)
    /\ LET r == Formatted(args, coeffs, metadata)
       IN  IF "exc" \in DOMAIN r
           THEN /\ Die(r.exc)
                /\ UNCHANGED output
           ELSE /\ output' = r
                /\ pc' = "write"
                /\ UNCHANGED <<exitCode, stderr>>
    /\ UNCHANGED <<args, gen, coeffs, metadata, fh, fs, stdout, prev, runs>>

\* "if args.file:" -- None and the empty string are both false.
Truthy(file) == file # None /\ file # <<"">>

\* open(path, 'a'): the content is kept and writes are appended.
open_a(content) == content

\* open(path, 'w') on the content of the path: the file is truncated.
open_w(content) == <<>>

\* main, line 243: the file is opened for writing, or open raises OSError (a
\* missing directory, no permission) and the file is left as it was.
OpenFile ==
    /\ pc = "write"
    /\ Truthy(args.file)
    /\ calls' = Append(calls, "open")
    /\ \/ /\ fh' = "open"
          /\ fs' = open_w(fs)
          /\ pc' = "opened"
          /\ UNCHANGED <<exitCode, stderr>>
       \/ /\ Die("OSError")
          /\ UNCHANGED <<fh, fs>>
    /\ UNCHANGED <<args, gen, coeffs, metadata, output, stdout, prev, runs>>

\* main, line 244: f.write(output).  The write stores the whole text, or fails
\* (a full disk, an I/O error) with nothing or only a part of it stored.
WriteFile ==
    /\ pc = "opened"
    /\ calls' = Append(calls, "write")
    /\ \/ /\ fs' = Append(fs, [src |-> "write", data |-> output, complete |-> TRUE])
          /\ pc' = "written"
       \/ /\ fs' = fs
          /\ pc' = "write_failed"
       \/ /\ fs' = Append(fs, [src |-> "write", data |-> output, complete |-> FALSE])
          /\ pc' = "write_failed"
    /\ UNCHANGED <<args, gen, coeffs, metadata, output, fh, stdout, stderr,
                   exitCode, prev, runs>>

\* The end of the with block, line 243: f is closed on the way out, whether the
\* body completed or raised; a raised OSError then ends the process.
CloseFile ==
    /\ pc \in {"written", "write_failed"}
    /\ fh' = "closed"
    /\ calls' = Append(calls, "close")
    /\ IF pc = "written"
       THEN /\ pc' = "confirm"
            /\ UNCHANGED <<exitCode, stderr>>
       ELSE Die("OSError")
    /\ UNCHANGED <<args, gen, coeffs, metadata, output, fs, stdout, prev, runs>>

\* main, line 245: print(f"Coefficients written to {args.file}"), then main
\* returns and the process exits with status 0.
Confirm ==
    /\ pc = "confirm"
    /\ stdout' = Append(stdout, [kind |-> "confirmation", path |-> args.file[1]])
    /\ calls' = Append(calls, "print")
    /\ pc' = "exit"
    /\ exitCode' = <<0>>
    /\ UNCHANGED <<args, gen, coeffs, metadata, output, fh, fs, stderr, prev, runs>>

\* main, line 247: print(output), then main returns.
PrintOutput ==
    /\ pc = "write"
    /\ ~Truthy(args.file)
    /\ stdout' = Append(stdout, [kind |-> "document", text |-> output])
    /\ calls' = Append(calls, "print")
    /\ pc' = "exit"
    /\ exitCode' = <<0>>
    /\ UNCHANGED <<args, gen, coeffs, metadata, output, fh, fs, stderr, prev, runs>>

\* The script is run again with the same command line: a new process (every
\* local of main is unbound again, the streams are new), the same file system.
Rerun ==
    /\ pc = "exit"
    /\ runs < MaxRuns
    /\ prev' = [stdout |-> stdout, fs |-> fs, exitCode |-> exitCode]
    /\ runs' = runs + 1
    /\ pc' = "validate"
    /\ gen' = None
    /\ coeffs' = None
    /\ metadata' = None
    /\ output' = None
    /\ fh' = "none"
    /\ stdout' = <<>>
    /\ stderr' = <<>>
    /\ exitCode' = None
    /\ calls' = <<>>
    /\ UNCHANGED <<args, fs>>

Next ==
    \/ Validate
    \/ Construct
    \/ Design
    \/ MakeMetadata
    \/ Format
    \/ OpenFile
    \/ WriteFile
    \/ CloseFile
    \/ Confirm
    \/ PrintOutput
    \/ Rerun

Spec == Init /\ [][Next]_vars

\* ------------------------------------------------ the formatter on its own

\* Largest --width, and largest numerator of a coefficient, handed to
\* to_verilog when it is exercised on its own.
MaxWidth == 6
MaxNum == 5

\* Coefficient values: positive, zero and negative, integral or not after
\* scaling, inside and outside the range of the narrow widths.
CoeffValues == {Rat(n, d) : n \in (-MaxNum)..MaxNum, d \in {1, 2, 3}}

\* to_verilog called as main calls it, on any coefficients: every width >= 2
\* with 0 <= frac_bits < width.
InitVerilog ==
    /\ args \in [filter_type : {"lowpass"}, freq : {R(4000)},
                 sample_rate : {R(48000)}, q : {R(1)}, gain : {R(0)},
                 output : {"verilog"}, file : {None},
                 wf : {<<w, f>> : w \in 2..MaxWidth, f \in 0..(MaxWidth - 1)}]
    /\ args.wf[2] < args.wf[1]
    /\ \E v \in CoeffValues, w \in CoeffValues : coeffs = <<v, w, FNeg(v), w, v>>
    /\ pc = "format"
    /\ gen = BiquadCoeffGenerator(args.sample_rate)
    /\ metadata = Metadata(args)
    /\ output = None
    /\ fh = "none"
    /\ fs = PreviousContent
    /\ stdout = <<>>
    /\ stderr = <<>>
    /\ exitCode = None
    /\ calls = <<"BiquadCoeffGenerator", "lowpass">>
    /\ prev = None
    /\ runs = 1

SpecVerilog == InitVerilog /\ [][Format]_vars

\* ------------------------------------------------------------------ claims

\* 0 < freq < sample_rate / 2 and q > 0, as numbers
ValidSpec(a) ==
    /\ FLt(R(0), a.freq)
    /\ FLt(a.freq, FDiv(a.sample_rate, R(2)))
    /\ FGt(a.q, R(0))

\* The run was ended by the validation: it exited before making any call.
Rejected == pc = "exit" /\ calls = <<>>

\* What the file held when this run began.
ContentAtStart == IF prev = None THEN PreviousContent ELSE prev.fs

\* C1, first part: an invocation is rejected exactly when freq <= 0, or
\* freq >= sample_rate/2, or q <= 0.
C1_RejectedExactly ==
    pc # "validate" =>
        (Rejected <=> (\/ FLe(args.freq, R(0))
                       \/ FGe(args.freq, FDiv(args.sample_rate, R(2)))
                       \/ FLe(args.q, R(0))))

\* C1, second part: a rejected invocation ends with exit code 1, before any
\* design method is called, with nothing on stdout and the --file path untouched.
C1_RejectionIsClean ==
    Rejected =>
        /\ exitCode = <<1>>
        /\ Len(stderr) = 1
        /\ gen = None /\ coeffs = None /\ output = None
        /\ stdout = <<>>
        /\ fh = "none"
        /\ fs = ContentAtStart

\* C1, third part: every spec that reaches the designer satisfies
\* 0 < freq < sample_rate/2, q > 0 and sample_rate > 0.
C1_DesignerSeesValid ==
    gen # None => ValidSpec(args) /\ FGt(args.sample_rate, R(0))

\* C1: the validation rejects exactly the out-of-range invocations, cleanly,
\* and so only valid specs reach the designer.
C1_Claim == C1_RejectedExactly /\ C1_RejectionIsClean /\ C1_DesignerSeesValid

\* The integer a sequence of hex digits denotes.
RECURSIVE HexValue(_)
HexValue(ds) ==
    IF ds = <<>> THEN 0
    ELSE 16 * HexValue(SubSeq(ds, 1, Len(ds) - 1)) + ds[Len(ds)]

\* floor and truncation toward zero of a rational
Floor(x) == x[1] \div x[2]
TruncTowardZero(x) == IF x[1] >= 0 THEN x[1] \div x[2] ELSE -((-x[1]) \div x[2])
IsIntegral(x) == x[2] = 1

\* to_verilog has returned its document.
VerilogDone == output # None /\ args.output = "verilog"
\* v * 2^frac_bits for the i-th coefficient, and the value rendered for it
Scaled(i) == FMul(coeffs[i], R(Pow(2, args.wf[2])))
Rendered(i) == HexValue(output.params[i].hex)
Modulus == Pow(2, args.wf[1])

\* C2 as stated: the value to_verilog renders is floor(v * 2^frac_bits)
\* modulo 2^width.
C2_Claim ==
    VerilogDone => \A i \in 1..5 : Rendered(i) = Floor(Scaled(i)) % Modulus

\* C2 amended: the value to_verilog renders is v * 2^frac_bits truncated toward
\* zero, modulo 2^width; that is floor(..) mod 2^width when the scaled value is
\* non-negative or integral and (floor(..) + 1) mod 2^width otherwise.
C2_TruncatesTowardZero ==
    VerilogDone =>
        \A i \in 1..5 :
            /\ Rendered(i) = TruncTowardZero(Scaled(i)) % Modulus
            /\ Rendered(i) = IF Scaled(i)[1] >= 0 \/ IsIntegral(Scaled(i))
                             THEN Floor(Scaled(i)) % Modulus
                             ELSE (Floor(Scaled(i)) + 1) % Modulus

\* A coefficient whose scaled value is negative and not integral was rendered.
C2_Witness ==
    /\ VerilogDone
    /\ \E i \in 1..5 : Scaled(i)[1] < 0 /\ ~IsIntegral(Scaled(i))

\* The width-bit pattern p read as a two's-complement signed integer.
Decode(p, width) == IF p >= Pow(2, width - 1) THEN p - Pow(2, width) ELSE p

\* C3: the rendered pattern p lies in [0, 2^width), decoding it as two's
\* complement and masking again gives p, and p is congruent to the truncated
\* scaled value modulo 2^width also when that value is out of range: the
\* quantizer wraps, it neither saturates nor raises.
C3_Wraparound ==
    /\ pc # "format" => pc = "write" /\ exitCode = None /\ VerilogDone
    /\ VerilogDone =>
        \A i \in 1..5 :
            LET p == Rendered(i)
                raw == TruncTowardZero(Scaled(i))
            IN  /\ 0 <= p /\ p < Modulus
                /\ BitAnd(Decode(p, args.wf[1]), Modulus - 1) = p
                /\ (p - raw) % Modulus = 0

\* A coefficient out of the signed range of the width was rendered.
C3_Witness ==
    /\ VerilogDone
    /\ \E i \in 1..5 :
          LET raw == TruncTowardZero(Scaled(i))
          IN  raw >= Pow(2, args.wf[1] - 1) \/ raw < -Pow(2, args.wf[1] - 1)

\* The design step of this run is over (it returned or it raised).
PostDesign == pc \notin {"validate", "construct", "design"} /\ ~Rejected

\* The unnormalized tuple the designer of the run computes.
DesignedRaw ==
    CASE args.filter_type = "lowpass" -> lowpass_raw(gen, args.freq, args.q)
      [] args.filter_type = "highpass" -> highpass_raw(gen, args.freq, args.q)
      [] args.filter_type = "bandpass" -> bandpass_raw(gen, args.freq, args.q)
      [] args.filter_type = "bandstop" -> bandstop_raw(gen, args.freq, args.q)
      [] args.filter_type = "peaking" ->
            peaking_raw(gen, args.freq, args.q, args.gain)

Sum3(x, y, z) == FAdd(FAdd(x, y), z)

\* C4: for every filter type and every valid spec (any gain), a0 is strictly
\* positive, no division by zero happens, and the designer returns five
\* coefficients.
C4_Claim ==
    PostDesign /\ ValidSpec(args) =>
        /\ coeffs # None
        /\ Len(coeffs) = 5
        /\ \A i \in 1..5 : IsNum(coeffs[i])
        /\ FGt(DesignedRaw[4], R(0))

\* C5: for every valid spec, lowpass returns coefficients with
\* b0 + b1 + b2 = 1 + a1 + a2 # 0 (before normalization,
\* b0 + b1 + b2 = a0 + a1 + a2): H(1) = 1.
C5_LowpassUnitDCGain ==
    PostDesign /\ ValidSpec(args) /\ args.filter_type = "lowpass" =>
        /\ coeffs # None
        /\ Sum3(coeffs[1], coeffs[2], coeffs[3]) = Sum3(R(1), coeffs[4], coeffs[5])
        /\ Sum3(coeffs[1], coeffs[2], coeffs[3]) # R(0)
        /\ Sum3(DesignedRaw[1], DesignedRaw[2], DesignedRaw[3])
              = Sum3(DesignedRaw[4], DesignedRaw[5], DesignedRaw[6])

\* lowpass has returned for a valid spec.
C5_Witness ==
    /\ pc = "metadata" /\ ValidSpec(args) /\ args.filter_type = "lowpass"
    /\ coeffs # None /\ coeffs[1] # coeffs[2]

\* C6: for every valid spec, highpass returns coefficients with
\* b0 + b1 + b2 = 0.
C6_HighpassDCNull ==
    PostDesign /\ ValidSpec(args) /\ args.filter_type = "highpass" =>
        /\ coeffs # None
        /\ Sum3(coeffs[1], coeffs[2], coeffs[3]) = R(0)

\* highpass has returned, for a valid spec, coefficients that are not all zero.
C6_Witness ==
    /\ pc = "metadata" /\ ValidSpec(args) /\ args.filter_type = "highpass"
    /\ coeffs # None /\ FGt(coeffs[1], R(0))

C8_Claim ==
    metadata # None =>
        ("gain_db" \in DOMAIN metadata <=> args.filter_type = "peaking")

\* C8 amended: the metadata mapping always has a gain_db entry; its value is
\* the gain when the filter type is peaking and None (null in the json
\* document) otherwise; the json document carries that mapping.
C8_GainNullUnlessPeaking ==
    /\ metadata # None =>
          /\ "gain_db" \in DOMAIN metadata
          /\ metadata.gain_db =
                IF args.filter_type = "peaking" THEN args.gain ELSE None
    /\ output # None /\ args.output = "json" =>
          /\ "metadata" \in DOMAIN output
          /\ output.metadata = metadata

\* A json document was produced for a filter that is not peaking.
C8_Witness ==
    /\ output # None /\ args.output = "json" /\ args.filter_type = "bandpass"
    /\ output.metadata.gain_db = None

\* The number of calls of f made so far in this run.
RECURSIVE Count(_, _)
Count(cs, f) ==
    IF cs = <<>> THEN 0
    ELSE Count(Tail(cs), f) + (IF Head(cs) = f THEN 1 ELSE 0)

Confirmation == [kind |-> "confirmation", path |-> args.file[1]]
Document == [kind |-> "document", text |-> output]
WholeDocument == <<[src |-> "write", data |-> output, complete |-> TRUE]>>

\* C9: for every accepted invocation, with --file the file is opened, the
\* whole document is written to it once, the handle is closed on every exit
\* path and before the confirmation, and stdout gets the confirmation only;
\* without --file the document goes to stdout and no file is opened; a
\* successful run ends with exit code 0.
C9_Claim ==
    /\ pc = "exit" /\ ~Rejected /\ args.file # None =>
          /\ Count(calls, "open") = 1
          /\ fh # "none" => Count(calls, "write") = 1 /\ fh = "closed"
          /\ \A i \in 1..Len(stdout) : stdout[i] = Confirmation
    /\ Len(stdout) > 0 /\ args.file # None =>
          stdout = <<Confirmation>> /\ fh = "closed" /\ fs = WholeDocument
    /\ pc = "exit" /\ ~Rejected /\ args.file = None =>
          /\ stdout = <<Document>> /\ output # None
          /\ fh = "none" /\ Count(calls, "open") = 0 /\ fs = ContentAtStart
    /\ pc = "exit" /\ Len(stdout) > 0 => exitCode = <<0>>

\* C10, first part: a run that repeats the previous run's command line and
\* succeeds like it leaves the same text on stdout and in the file.
C10_SameOutcome ==
    pc = "exit" /\ prev # None /\ exitCode = <<0>> /\ prev.exitCode = <<0>> =>
        /\ stdout = prev.stdout
        /\ Truthy(args.file) => fs = prev.fs

\* C10, second part: the document of a run is determined by the run's own
\* parameters.
C10_FunctionOfArgs ==
    output # None =>
        output = Formatted(args,
                           Designed([sample_rate |-> args.sample_rate], args),
                           Metadata(args))

\* C10, third part: the designer call leaves the generator as it was, and the
\* encoder call leaves the generator, the coefficients and the metadata.
C10_NoMutation ==
    /\ pc = "design" => gen' = gen
    /\ pc = "format" => gen' = gen /\ coeffs' = coeffs /\ metadata' = metadata

WriteFailed ==
    pc = "exit" /\ Count(calls, "write") = 1 /\ exitCode = <<1>>

\* C11, first part: a failed write is fatal: the handle is closed, no
\* confirmation is printed and the run does not report success.
C11_FailureIsFatal ==
    /\ pc = "write_failed" => stdout = <<>> /\ exitCode = None
    /\ WriteFailed =>
          /\ stdout = <<>>
          /\ exitCode # <<0>>
          /\ stderr = <<"OSError">>
          /\ fh = "closed"

\* C11, second part: after a failed write the target file holds its previous
\* content or the complete new document, never nothing or a part of it.
C11_FileIsWhole ==
    WriteFailed => fs = ContentAtStart \/ fs = WholeDocument

\* C11: a failing write is propagated as a fatal error and leaves the target
\* file with its previous content or with the complete new document.
C11_Claim == C11_FailureIsFatal /\ C11_FileIsWhole

====
